---- MODULE Spec2Model ----
(***************************************************************************)
(* Model of the multi-lingual voice agent:                                 *)
(*   - express-app/server.js   : the POST /voice booking pipeline          *)
(*   - twilio-functions/stream.js : the streaming session aggregator       *)
(* Spec          : the /voice request handler (requests handled one after  *)
(*                 the other, sharing the language cache)                  *)
(* SpecLive      : the same with collaborators that may never reply, and   *)
(*                 fairness of the handler's steps                         *)
(* SpecStream    : one streaming session of the aggregator                 *)
(* SpecTime      : step 7a alone, over starts, durations and time zones    *)
(* SpecTranslate : translateText alone, over its arguments                 *)
(***************************************************************************)
EXTENDS Integers, Sequences, FiniteSets, TLC

\* JavaScript's undefined / null (an absent value).
Undefined == "undefined"

(***************************************************************************)
(* Bounds of the model                                                     *)
(***************************************************************************)
MaxRequests == 2        \* requests handled by the server
TickSeconds == 1800     \* granularity of the wall clock
MaxTime     == 3600     \* the wall clock stops here
MaxInvocations == 2     \* requests running step 4 at the same time
MaxMessages == 3        \* WebSocket messages of one streaming session

(***************************************************************************)
(* Program constants                                                       *)
(***************************************************************************)
CacheTTL         == 3600   \* redis.set(..., 'EX', 3600)
DefaultDuration  == 30     \* DEFAULT_APPOINTMENT_DURATION = 30
MinutesPerDay    == 24 * 60
ThresholdTenths  == 2      \* avgScore > 0.2, avgScore < -0.2; scores are in tenths
PrefixLen        == 10     \* text.substring(0, 10)

\* Input alphabets.
\* Utterance texts (speechResult), one of each kind the date parser tells apart:
\*   t1 names a time in words the parser reads only in the English translation,
\*   t2 names no time, t3 names a time the parser reads in the text as spoken
\*   and as translated, t4 names a time the parser reads only as spoken.
Texts        == {"t1", "t2", "t3", "t4"}
Hints        == {"fr", "en_US"}           \* interaction_result.detectedLanguage
\* Codes that are not well-formed locale tags: Date.toLocaleDateString(code, ..)
\* throws a RangeError for them.
MalformedLocales == {"en_US"}
DetectCodes  == {"es", "en"}              \* codes the detection provider returns
\* Instants are minutes since day 0 00:00 UTC.
StartInstants == {2055}                   \* what chrono returns in Spec: day 1 10:15
\* SpecTime draws the inputs of step 7a from these:
\* day 1 00:10, 09:00, 10:15, 13:05, 23:00, 23:29, 23:30, 23:45
ClockInstants == {1450, 1980, 2055, 2225, 2820, 2849, 2850, 2865}
TzOffsets    == {0, 60, 330}              \* time zone of the host, minutes east of UTC
\* DEFAULT_APPOINTMENT_DURATION: the numeric default, or a string from process.env
Durations    == {<<"num", 30>>, <<"str", 30>>, <<"str", 45>>, <<"str", 5>>}

DemoCustomer  == [id |-> "demo_customer", email |-> "demo@example.com"]
FoundCustomer == [id |-> "c1", email |-> "c1@example.com"]

VARIABLES
  \* configuration, fixed at start-up (process.env)
  translationClient, db, redis, EASY_APPOINTMENTS, ULTRAVOX_TTS_URL,
  DEFAULT_APPOINTMENT_DURATION,
  hostTz,         \* environment: time zone offset of the host
  hourCycle24,    \* environment: toLocaleTimeString prints midnight as hour 24
  \* state shared by all requests
  cache,          \* redis: text -> [code, expires]
  now,            \* wall clock, seconds
  call_analytics, \* the Firestore collection: the records of the current request
  pendingAdds,    \* add() promises of the current request not yet settled
  numRequests,    \* requests received so far
  \* the locals of the request being handled
  rq,
  \* the streaming session (stream.js)
  ss,
  \* the last call of translateText made on its own (SpecTranslate)
  tr,
  \* the last two calls of ultravoxTextToSpeech made on its own (SpecSynth)
  sy,
  \* the requests that run step 4 concurrently on one text (SpecConc)
  cv

cfgVars    == <<translationClient, db, redis, EASY_APPOINTMENTS, ULTRAVOX_TTS_URL,
                DEFAULT_APPOINTMENT_DURATION, hostTz, hourCycle24>>
sharedVars == <<cache, now, call_analytics, pendingAdds, numRequests>>
vars       == <<cfgVars, sharedVars, rq, ss, tr, sy, cv>>

(***************************************************************************)
(* Texts and the helpers of server.js                                      *)
(***************************************************************************)
\* A text is a message in a language; translation changes the language only.
Msg(m, l) == [msg |-> m, lang |-> l]

\* The characters of the English messages of server.js (of the confirmation:
\* up to the date).
EnglishChars(m) ==
  CASE m = "missing_caller" ->
       <<"A", "n", " ", "i", "n", "t", "e", "r", "n", "a", "l", " ", "e",
         "r", "r", "o", "r", " ", "o", "c", "c", "u", "r", "r", "e", "d",
         ".", " ", "M", "i", "s", "s", "i", "n", "g", " ", "c", "a", "l",
         "l", "e", "r", " ", "i", "n", "f", "o", "r", "m", "a", "t", "i",
         "o", "n", ".">>
    [] m = "not_found" ->
       <<"S", "o", "r", "r", "y", ",", " ", "w", "e", " ", "c", "o", "u",
         "l", "d", " ", "n", "o", "t", " ", "f", "i", "n", "d", " ", "y",
         "o", "u", "r", " ", "r", "e", "c", "o", "r", "d", " ", "i", "n",
         " ", "o", "u", "r", " ", "s", "y", "s", "t", "e", "m", ".">>
    [] m = "db_error" ->
       <<"S", "o", "r", "r", "y", ",", " ", "w", "e", " ", "e", "n", "c",
         "o", "u", "n", "t", "e", "r", "e", "d", " ", "a", " ", "d", "a",
         "t", "a", "b", "a", "s", "e", " ", "e", "r", "r", "o", "r", ".",
         " ", "P", "l", "e", "a", "s", "e", " ", "t", "r", "y", " ", "a",
         "g", "a", "i", "n", " ", "l", "a", "t", "e", "r", ".">>
    [] m = "confirmation" ->
       <<"O", "k", "a", "y", ",", " ", "y", "o", "u", "r", " ", "a", "p",
         "p", "o", "i", "n", "t", "m", "e", "n", "t", " ", "i", "s", " ",
         "b", "o", "o", "k", "e", "d", " ", "f", "o", "r", " ">>
    [] m = "not_parsed" ->
       <<"S", "o", "r", "r", "y", ",", " ", "I", " ", "c", "o", "u", "l",
         "d", "n", "'", "t", " ", "u", "n", "d", "e", "r", "s", "t", "a",
         "n", "d", " ", "t", "h", "e", " ", "d", "a", "t", "e", " ", "o",
         "r", " ", "t", "i", "m", "e", " ", "y", "o", "u", " ", "r", "e",
         "q", "u", "e", "s", "t", "e", "d", ".", " ", "C", "o", "u", "l",
         "d", " ", "y", "o", "u", " ", "p", "l", "e", "a", "s", "e", " ",
         "t", "r", "y", " ", "a", "g", "a", "i", "n", "?">>
    [] m = "generic_error" ->
       <<"S", "o", "r", "r", "y", ",", " ", "a", "n", " ", "u", "n", "e",
         "x", "p", "e", "c", "t", "e", "d", " ", "e", "r", "r", "o", "r",
         " ", "o", "c", "c", "u", "r", "r", "e", "d", " ", "w", "h", "i",
         "l", "e", " ", "p", "r", "o", "c", "e", "s", "s", "i", "n", "g",
         " ", "y", "o", "u", "r", " ", "r", "e", "q", "u", "e", "s", "t",
         ".">>
    [] OTHER -> << >>

\* The characters of a text.  A translation is some other string: here the
\* target code, in brackets, before the characters of the English message.
Chars(text) ==
  IF text.lang = "en" THEN EnglishChars(text.msg)
  ELSE <<"[", text.lang, "]">> \o EnglishChars(text.msg)

\* String.prototype.substring(from, to), on a sequence of characters.
Substring(chars, from, to) ==
  SubSeq(chars, from + 1, IF to < Len(chars) THEN to ELSE Len(chars))

\* Variant: the placeholder is named after the whole text.
ultravoxTextToSpeech_WholeText(text, language, ok) ==
  IF ~ULTRAVOX_TTS_URL
    THEN [kind |-> "placeholder", language |-> language, text |-> Chars(text)]
    ELSE IF ok THEN [kind |-> "audio", language |-> Undefined, text |-> << >>]
         ELSE [kind |-> "error", language |-> language, text |-> << >>]

\* ultravoxTextToSpeech: ok is the provider's outcome (ignored when no URL is set).
\* The placeholder is `placeholder_audio_for_${language}_${text.substring(0, 10)}.mp3`,
\* the error indicator `error_generating_tts_${language}`.  For a string it has
\* no throwing path: the provider call is inside try/catch.
ultravoxTextToSpeech(text, language, ok) ==
  IF ~ULTRAVOX_TTS_URL
    THEN [kind |-> "placeholder", language |-> language,
          text |-> Substring(Chars(text), 0, PrefixLen)]
    ELSE IF ok THEN [kind |-> "audio", language |-> Undefined, text |-> << >>]
         ELSE [kind |-> "error", language |-> language, text |-> << >>]

\* The arguments ultravoxTextToSpeech is called with on its own: the English
\* messages, a translated one and the empty string, in a language.
SynthTexts == {Msg(m, "en") : m \in {"missing_caller", "not_found", "db_error",
                                      "generic_error", Undefined}}
                \cup {Msg("generic_error", "es")}
SynthLangs == {"en", "es", Undefined}

\* No call of ultravoxTextToSpeech made yet.
NoSynthCall == [called |-> FALSE, text |-> Msg(Undefined, "en"), language |-> Undefined,
                providerCalls |-> 0,
                result |-> [kind |-> Undefined, language |-> Undefined, text |-> << >>]]
SyInit == [last |-> NoSynthCall, prev |-> NoSynthCall]

\* One call of ultravoxTextToSpeech(text, language), the provider answering
\* (ok) or failing; the call before it is kept for comparison.
CallTextToSpeech ==
  /\ \E text \in SynthTexts, language \in SynthLangs,
        ok \in (IF ULTRAVOX_TTS_URL THEN BOOLEAN ELSE {TRUE}) :
       sy' = [prev |-> sy.last,
              last |-> [called |-> TRUE, text |-> text, language |-> language,
                        providerCalls |-> IF ULTRAVOX_TTS_URL THEN 1 ELSE 0,
                        result |-> ultravoxTextToSpeech(text, language, ok)]]
  /\ UNCHANGED <<cfgVars, sharedVars, rq, ss, tr, cv>>

\* Variant: the guard does not compare the two languages.
TranslateCallsProvider_NoSameLanguageTest(text, sourceLang, targetLang) ==
  translationClient /\ text.msg # Undefined

\* Does translateText call the provider ?
TranslateCallsProvider(text, sourceLang, targetLang) ==
  translationClient /\ text.msg # Undefined /\ sourceLang # targetLang

\* Variant: a failed provider call yields an empty text.
translateText_FailureEmpties(text, sourceLang, targetLang, ok) ==
  IF ~TranslateCallsProvider(text, sourceLang, targetLang) THEN text
  ELSE IF ok THEN [text EXCEPT !.lang = targetLang]
  ELSE Msg(Undefined, text.lang)

\* translateText: ok is the provider's outcome.
translateText(text, sourceLang, targetLang, ok) ==
  IF ~TranslateCallsProvider(text, sourceLang, targetLang) THEN text
  ELSE IF ok THEN [text EXCEPT !.lang = targetLang]
  ELSE text

\* The arguments translateText is called with on its own: a text or an empty
\* one, and language codes, undefined included.
TranslateTexts == {Msg(m, "orig") : m \in Texts \cup {Undefined}}
TranslateLangs == {"en", "es", "fr", Undefined}

\* No call of translateText made yet.
TrInit == [called |-> FALSE, text |-> Msg(Undefined, "orig"), sourceLang |-> Undefined,
           targetLang |-> Undefined, providerCalls |-> 0, result |-> Msg(Undefined, "orig")]

\* One call of translateText(text, sourceLang, targetLang), the provider
\* answering (ok) or failing.
CallTranslateText ==
  /\ \E text \in TranslateTexts, sourceLang \in TranslateLangs, targetLang \in TranslateLangs,
        ok \in BOOLEAN :
       tr' = [called |-> TRUE, text |-> text, sourceLang |-> sourceLang,
              targetLang |-> targetLang,
              providerCalls |-> IF TranslateCallsProvider(text, sourceLang, targetLang)
                                  THEN 1 ELSE 0,
              result |-> translateText(text, sourceLang, targetLang, ok)]
  /\ UNCHANGED <<cfgVars, sharedVars, rq, ss, sy, cv>>

\* Date.toLocaleTimeString('en-US', {hour:'2-digit', minute:'2-digit', hour12:false})
\* as <<HH, MM>>; some ICU builds print midnight as hour 24 (h24).
FormatTime(minuteOfDay, h24) ==
  LET h == minuteOfDay \div 60
  IN  <<IF h = 0 /\ h24 THEN 24 ELSE h, minuteOfDay % 60>>

Digits(n) == IF n < 10 THEN 1 ELSE IF n < 100 THEN 2 ELSE IF n < 1000 THEN 3 ELSE 4
Pow10(k)  == IF k = 1 THEN 10 ELSE IF k = 2 THEN 100 ELSE IF k = 3 THEN 1000 ELSE 10000

\* JavaScript `minute + minutesToAdd`: numeric addition for a number, string
\* concatenation (then ToNumber in setHours) when minutesToAdd is a string.
JsPlus(minute, minutesToAdd) ==
  IF minutesToAdd[1] = "str"
    THEN minute * Pow10(Digits(minutesToAdd[2])) + minutesToAdd[2]
    ELSE minute + minutesToAdd[2]

\* addMinutesToTime(time, minutesToAdd): time is <<HH, MM>>; the date is dropped.
addMinutesToTime(time, minutesToAdd, h24) ==
  LET total == time[1] * 60 + JsPlus(time[2], minutesToAdd)
  IN  FormatTime(total % MinutesPerDay, h24)

\* Step 7a: the start and end strings sent to Easy!Appointments.
\* startDate is the UTC date (toISOString), startTime the local time of day.
BookingTimes(appointmentStart) ==
  LET startDate == appointmentStart \div MinutesPerDay
      startTime == FormatTime((appointmentStart + hostTz) % MinutesPerDay, hourCycle24)
      endTime   == addMinutesToTime(startTime, DEFAULT_APPOINTMENT_DURATION, hourCycle24)
  IN  [start |-> <<startDate, startTime>>, end |-> <<startDate, endTime>>]

\* The instant a "YYYY-MM-DD HH:MM:00" string denotes, in minutes.
SentInstant(dt) == dt[1] * MinutesPerDay + dt[2][1] * 60 + dt[2][2]

\* An absent cache entry.
NoEntry == [code |-> Undefined, expires |-> 0]

\* Variant: an entry is returned whatever its age.
CacheLookup_IgnoresExpiry(text) == cache[text].code

\* redis.get(cacheKey): the code of an unexpired entry, else null.
CacheLookup(text) ==
  IF cache[text].code # Undefined /\ now < cache[text].expires
    THEN cache[text].code ELSE Undefined

(***************************************************************************)
(* POST /voice: the locals of one request.  Optional numbers and records   *)
(* are sequences of length 0 (undefined) or 1.                             *)
(***************************************************************************)
NoCalls == [lookup |-> 0, cacheGet |-> 0, cacheSet |-> 0, detect |-> 0,
            translate |-> 0, sched |-> 0, tts |-> 0, add |-> 0]

RqInit ==
  [pc |-> "idle",
   phoneNumber |-> FALSE,          \* is caller_id / From present
   speechResult |-> Undefined,
   hint |-> Undefined,             \* interaction_result.detectedLanguage
   detectedLanguage |-> Undefined,
   customer |-> << >>,
   lookupResult |-> Undefined,     \* outcome of db.query, when made
   cacheResult |-> Undefined,      \* outcome of redis.get, when made: hit, miss, error
   detection |-> Undefined,        \* outcome of translationClient.detect, when made
   textToParse |-> << >>,
   appointmentStart |-> << >>,
   times |-> << >>,                \* startDateTime / endDateTime
   eaRequest |-> << >>,            \* body of the POST to Easy!Appointments
   eaResult |-> Undefined,
   bookedAppointmentId |-> Undefined,
   error |-> Undefined,            \* error.message of the caught error
   branch |-> Undefined,           \* which reply is being produced
   reply |-> << >>,                \* text to be spoken
   voiceResponse |-> << >>,
   sends |-> << >>,                \* calls of res.json, in order
   rejected |-> FALSE,             \* the async handler ended with an uncaught error
   calls |-> NoCalls]              \* calls to external collaborators

Count(r, what) == [r EXCEPT !.calls[what] = @ + 1]

\* Variant: the replies of steps 7-8 start the analytics write before the
\* response is synthesized and sent.
Reply_AnalyticsFirst(r, branch, msg, next) ==
  [r EXCEPT !.branch = branch, !.reply = <<Msg(msg, "en")>>,
            !.pc = IF next = "translateReply" THEN "analytics" ELSE next]

\* Early return paths and steps 7-8: start producing the reply of a branch.
Reply(r, branch, msg, next) ==
  [r EXCEPT !.branch = branch, !.reply = <<Msg(msg, "en")>>, !.pc = next]

\* Step 8: the catch block is entered with the error.
Catch(r, message) ==
  Reply([r EXCEPT !.error = message], "error", "generic_error", "translateReply")

\* The terminal outcome a reply stands for.
OutcomeOf(branch) ==
  CASE branch = "reject"    -> "Rejected"
    [] branch = "missing"   -> "CustomerMissing"
    [] branch = "dberror"   -> "BookingFailed"
    [] branch = "booked"    -> "Booked"
    [] branch = "notparsed" -> "NotParsed"
    [] branch = "error"     -> "BookingFailed"

\* res.status(...) of a reply.
StatusOf(branch) ==
  CASE branch = "reject" -> 400
    [] branch \in {"dberror", "error"} -> 500
    [] OTHER -> 200

\* The language passed to ultravoxTextToSpeech for a reply.
SpeakLanguage(r) ==
  IF r.branch = "reject" THEN "en"
  ELSE IF r.branch \in {"missing", "dberror"}
         THEN (IF r.detectedLanguage # Undefined THEN r.detectedLanguage ELSE "en")
  ELSE r.detectedLanguage

\* app.post('/voice') step 1: a request arrives and its fields are extracted.
\* The handler never reads the analytics store, so the model keeps only the
\* records and pending writes of the request being handled.
Receive ==
  /\ rq.pc \in {"idle", "done"}
  /\ numRequests < MaxRequests
  /\ \E phone \in BOOLEAN, speech \in Texts \cup {Undefined}, h \in Hints \cup {Undefined} :
       rq' = [RqInit EXCEPT !.pc = "validate", !.phoneNumber = phone,
                            !.speechResult = speech, !.hint = h,
                            !.detectedLanguage = h]
  /\ numRequests' = numRequests + 1
  /\ call_analytics' = << >>
  /\ pendingAdds' = {}
  /\ UNCHANGED <<cfgVars, tr, sy, cv, cache, now, ss>>

\* Variant: step 2 lets every request through.
Validate_NoCheck ==
  /\ rq.pc = "validate"
  /\ rq' = [rq EXCEPT !.pc = "customer"]
  /\ UNCHANGED <<cfgVars, tr, sy, cv, sharedVars, ss>>

\* Step 2: validate input.
Validate ==
  /\ rq.pc = "validate"
  /\ rq' = IF ~rq.phoneNumber
             THEN Reply(rq, "reject", "missing_caller", "tts")
             ELSE [rq EXCEPT !.pc = "customer"]
  /\ UNCHANGED <<cfgVars, tr, sy, cv, sharedVars, ss>>

\* Variant: a lookup that finds no row carries on with the demo customer.
AfterLookup_MissingProceeds(r, result) ==
  CASE result = "found"   -> [r EXCEPT !.customer = <<FoundCustomer>>, !.pc = "language"]
    [] result = "missing" -> [r EXCEPT !.customer = <<DemoCustomer>>, !.pc = "language"]
    [] result = "error"   -> Reply(r, "dberror", "db_error", "tts")

\* Variant: a lookup that finds no row is answered like a database error.
AfterLookup_MissingIsError(r, result) ==
  CASE result = "found"   -> [r EXCEPT !.customer = <<FoundCustomer>>, !.pc = "language"]
    [] result = "missing" -> Reply(r, "dberror", "db_error", "tts")
    [] result = "error"   -> Reply(r, "dberror", "db_error", "tts")

\* Step 3, after db.query: a row, no row, or a thrown database error.
AfterLookup(r, result) ==
  CASE result = "found"   -> [r EXCEPT !.customer = <<FoundCustomer>>, !.pc = "language"]
    [] result = "missing" -> Reply(r, "missing", "not_found", "tts")
    [] result = "error"   -> Reply(r, "dberror", "db_error", "tts")

\* Variant: the lookup is skipped although a datastore is configured.
GetCustomer_SkipsLookup ==
  /\ rq.pc = "customer"
  /\ rq' = [rq EXCEPT !.customer = <<DemoCustomer>>, !.pc = "language"]
  /\ UNCHANGED <<cfgVars, tr, sy, cv, sharedVars, ss>>

\* Step 3: get customer.
GetCustomer ==
  /\ rq.pc = "customer"
  /\ IF db
       THEN \E result \in {"found", "missing", "error"} :
              rq' = AfterLookup(Count([rq EXCEPT !.lookupResult = result], "lookup"), result)
       ELSE rq' = [rq EXCEPT !.customer = <<DemoCustomer>>, !.pc = "language"]
  /\ UNCHANGED <<cfgVars, tr, sy, cv, sharedVars, ss>>

\* Variant: the guard does not look at the language supplied with the request.
NeedsDetection_IgnoresHint(r) ==
  r.speechResult # Undefined /\ translationClient

\* Step 4, the guard of the detection branch: no hint, a text, a detection provider.
NeedsDetection(r) ==
  r.detectedLanguage = Undefined /\ r.speechResult # Undefined /\ translationClient

\* Variant: the detection call is made whatever the cache returned.
AfterCacheGet_AlwaysDetect(value) == "detect"

\* Step 4, after redis.get returned value: a hit skips the detection call.
AfterCacheGet(value) == IF value # Undefined THEN "translateInput" ELSE "detect"

\* Step 4: resolve the language; reads the cache when there is one.
ResolveLanguage ==
  /\ rq.pc = "language"
  /\ IF NeedsDetection(rq)
       THEN IF redis
              THEN \E ok \in BOOLEAN :
                     LET r == Count(rq, "cacheGet")
                         value == CacheLookup(rq.speechResult)
                     IN  rq' = IF ok
                                 THEN [r EXCEPT !.detectedLanguage = value,
                                                !.cacheResult =
                                                   IF value # Undefined THEN "hit" ELSE "miss",
                                                !.pc = AfterCacheGet(value)]
                                 ELSE [r EXCEPT !.detectedLanguage = "en",   \* catch (langError)
                                                !.cacheResult = "error",
                                                !.pc = "translateInput"]
              ELSE rq' = [rq EXCEPT !.pc = "detect"]
       ELSE IF rq.detectedLanguage = Undefined
              THEN rq' = [rq EXCEPT !.detectedLanguage = "en", !.pc = "translateInput"]
              ELSE rq' = [rq EXCEPT !.pc = "translateInput"]
  /\ UNCHANGED <<cfgVars, tr, sy, cv, sharedVars, ss>>

\* Step 4: translationClient.detect(speechResult).  The reply may carry no
\* language ("nolang"), or the call may throw.
Detect ==
  /\ rq.pc = "detect"
  /\ \E result \in DetectCodes \cup {"nolang", "threw"} :
       LET r == Count([rq EXCEPT !.detection = result], "detect")
       IN  rq' = CASE result = "threw" ->
                        [r EXCEPT !.detectedLanguage = "en", !.pc = "translateInput"]
                   [] result = "nolang" ->
                        [r EXCEPT !.detectedLanguage = Undefined, !.pc = "translateInput"]
                   [] OTHER ->
                        [r EXCEPT !.detectedLanguage = result,
                                  !.pc = IF redis THEN "cacheSet" ELSE "translateInput"]
  /\ UNCHANGED <<cfgVars, tr, sy, cv, sharedVars, ss>>

\* Step 4: redis.set(cacheKey, detectedLanguage, 'EX', 3600); a failure lands in
\* the same catch as a detection failure.
CacheSet ==
  /\ rq.pc = "cacheSet"
  /\ \E ok \in BOOLEAN :
       LET r == Count(rq, "cacheSet")
       IN  IF ok
             THEN /\ cache' = [cache EXCEPT ![rq.speechResult] =
                                  [code |-> rq.detectedLanguage, expires |-> now + CacheTTL]]
                  /\ rq' = [r EXCEPT !.pc = "translateInput"]
             ELSE /\ cache' = cache
                  /\ rq' = [r EXCEPT !.detectedLanguage = "en", !.pc = "translateInput"]
  /\ UNCHANGED <<cfgVars, tr, sy, cv, now, call_analytics, pendingAdds, numRequests, ss>>

\* Step 5: translate the input to English for parsing.
TranslateInput ==
  /\ rq.pc = "translateInput"
  /\ IF rq.speechResult # Undefined /\ rq.detectedLanguage # "en"
       THEN LET text == Msg(rq.speechResult, "orig")
                called == TranslateCallsProvider(text, rq.detectedLanguage, "en")
            IN  \E ok \in (IF called THEN BOOLEAN ELSE {TRUE}) :
                  rq' = [(IF called THEN Count(rq, "translate") ELSE rq) EXCEPT
                           !.textToParse = <<translateText(text, rq.detectedLanguage, "en", ok)>>,
                           !.pc = "parse"]
       ELSE rq' = [rq EXCEPT
                     !.textToParse = IF rq.speechResult = Undefined THEN << >>
                                     ELSE <<Msg(rq.speechResult, "orig")>>,
                     !.pc = "parse"]
  /\ UNCHANGED <<cfgVars, tr, sy, cv, sharedVars, ss>>

\* chrono.parse(textToParse, ...) with the default (English) parser: does it
\* find a date in the text ?  The text reaches it translated to English
\* (lang "en") or as spoken.
ChronoReads(text) ==
  \/ text.msg = "t3"
  \/ text.msg = "t1" /\ text.lang = "en"
  \/ text.msg = "t4" /\ text.lang # "en"

\* Step 6: chrono.parse; no result and a thrown parse error both leave
\* appointmentStart undefined.
ParseTime ==
  /\ rq.pc = "parse"
  /\ IF rq.textToParse # << >> /\ ChronoReads(rq.textToParse[1])
       THEN \E start \in {<<i>> : i \in StartInstants} :
              rq' = [rq EXCEPT !.appointmentStart = start, !.pc = "process"]
       ELSE rq' = [rq EXCEPT !.pc = "process"]
  /\ UNCHANGED <<cfgVars, tr, sy, cv, sharedVars, ss>>

\* Step 7: the condition of the booking branch.
CanBook(r) == r.appointmentStart # << >> /\ r.customer # << >>

\* Step 7 / 7a up to the configuration check; 7e when nothing can be booked.
Process ==
  /\ rq.pc = "process"
  /\ IF CanBook(rq)
       THEN LET r == [rq EXCEPT !.times = <<BookingTimes(rq.appointmentStart[1])>>]
            IN  rq' = IF ~EASY_APPOINTMENTS
                        THEN Catch(r, "Easy!Appointments URL or API Key not configured.")
                        ELSE [r EXCEPT !.pc = "book"]
       ELSE rq' = Reply(rq, "notparsed", "not_parsed", "translateReply")
  /\ UNCHANGED <<cfgVars, tr, sy, cv, sharedVars, ss>>

\* Variant: a failed scheduling call is tried again.
SchedulingFailed_Retry(r) == [r EXCEPT !.pc = "book"]

\* What the handler does when the scheduling call fails: the catch block.
SchedulingFailed(r) == Catch(r, "ea_error")

\* Step 7b: the confirmation text is built with toLocaleDateString and
\* toLocaleTimeString in the resolved language; a malformed code throws, which
\* the catch block of step 8 handles, the appointment being booked already.
PrepareConfirmation(r) ==
  IF r.detectedLanguage \in MalformedLocales
    THEN Catch(r, "Incorrect locale information provided")
    ELSE Reply(r, "booked", "confirmation", "translateReply")

\* Step 7a: the POST to Easy!Appointments; a success reply may lack an id.
BookAppointment ==
  /\ rq.pc = "book"
  /\ \E result \in {"ok", "noid", "error"} :
       LET r == Count([rq EXCEPT !.eaResult = result,
                                 !.eaRequest = <<[start |-> rq.times[1].start,
                                                  end |-> rq.times[1].end,
                                                  customerId |-> rq.customer[1].id]>>],
                      "sched")
       IN  rq' = IF result = "error"
                   THEN SchedulingFailed(r)
                   ELSE PrepareConfirmation([r EXCEPT !.bookedAppointmentId =
                                               IF result = "ok" THEN "a1" ELSE Undefined])
  /\ UNCHANGED <<cfgVars, tr, sy, cv, sharedVars, ss>>

\* Steps 7b, 7e, 8: translate the reply into the resolved language.
TranslateReply ==
  /\ rq.pc = "translateReply"
  /\ LET called == TranslateCallsProvider(rq.reply[1], "en", rq.detectedLanguage)
     IN  \E ok \in (IF called THEN BOOLEAN ELSE {TRUE}) :
           rq' = [(IF called THEN Count(rq, "translate") ELSE rq) EXCEPT
                    !.reply = <<translateText(rq.reply[1], "en", rq.detectedLanguage, ok)>>,
                    !.pc = "tts"]
  /\ UNCHANGED <<cfgVars, tr, sy, cv, sharedVars, ss>>

\* Steps 2, 3, 7c, 7e, 8: synthesize the reply.
Synthesize ==
  /\ rq.pc = "tts"
  /\ \E ok \in (IF ULTRAVOX_TTS_URL THEN BOOLEAN ELSE {TRUE}) :
       rq' = [(IF ULTRAVOX_TTS_URL THEN Count(rq, "tts") ELSE rq) EXCEPT
                !.voiceResponse = <<ultravoxTextToSpeech(rq.reply[1], SpeakLanguage(rq), ok)>>,
                !.pc = "send"]
  /\ UNCHANGED <<cfgVars, tr, sy, cv, sharedVars, ss>>

\* Variant: the handler returns right after res.json on every path.
AfterSend_NoAnalytics(branch) == "done"

\* Where the handler continues after res.json returned.
AfterSend(branch) ==
  IF branch \in {"reject", "missing", "dberror"} THEN "done" ELSE "analytics"

\* res.status(..).json({voiceResponse}).  Express sends the first one; a later
\* call throws ERR_HTTP_HEADERS_SENT, here inside the catch block, so the
\* handler's promise rejects.
SendResponse ==
  /\ rq.pc = "send"
  /\ LET send == [status |-> StatusOf(rq.branch), voiceResponse |-> rq.voiceResponse[1],
                  spoken |-> rq.reply[1], outcome |-> OutcomeOf(rq.branch)]
     IN  rq' = IF rq.sends = << >>
                 THEN [rq EXCEPT !.sends = <<send>>, !.pc = AfterSend(rq.branch)]
                 ELSE [rq EXCEPT !.sends = Append(@, send), !.rejected = TRUE, !.pc = "done"]
  /\ UNCHANGED <<cfgVars, tr, sy, cv, sharedVars, ss>>

\* Variant: the record of step 8a carries the reason of step 7f.
AnalyticsRecord_ErrorAsParsingFailed(r) ==
  [request |-> numRequests,
   subscriberEmail |-> r.customer[1].email,
   detectedLanguage |-> r.detectedLanguage,
   appointmentBooked |-> (r.branch = "booked"),
   appointmentId |-> IF r.branch = "booked" THEN <<r.bookedAppointmentId>> ELSE << >>,
   failureReason |-> IF r.branch = "booked" THEN << >> ELSE <<"Parsing failed">>]

\* The document passed to firestore.collection('call_analytics').add.
AnalyticsRecord(r) ==
  [request |-> numRequests,
   subscriberEmail |-> r.customer[1].email,
   detectedLanguage |-> r.detectedLanguage,
   appointmentBooked |-> (r.branch = "booked"),
   appointmentId |-> IF r.branch = "booked" THEN <<r.bookedAppointmentId>> ELSE << >>,
   failureReason |-> CASE r.branch = "booked"    -> << >>
                       [] r.branch = "notparsed" -> <<"Parsing failed">>
                       [] r.branch = "error"     -> <<"Server error: ", r.error>>]

\* Firestore validates the document when add() is called and throws, before
\* returning a promise, on a field whose value is undefined.
HasUndefinedField(doc) ==
  doc.detectedLanguage = Undefined \/ doc.appointmentId = <<Undefined>>

\* Steps 7d, 7f, 8a: start the analytics write, not awaited.  When add() throws
\* synchronously, in 7d and 7f that is inside the try block, in 8a it leaves
\* the handler.
SaveAnalytics ==
  /\ rq.pc = "analytics"
  /\ rq.customer # << >>
  /\ \E started \in {~HasUndefinedField(AnalyticsRecord(rq))} :
       LET r == Count(rq, "add")
       IN  IF started
             THEN /\ pendingAdds' = pendingAdds \cup {AnalyticsRecord(rq)}
                  /\ rq' = [r EXCEPT !.pc = "done"]
             ELSE /\ pendingAdds' = pendingAdds
                  /\ rq' = IF rq.branch = "error"
                             THEN [r EXCEPT !.rejected = TRUE, !.pc = "done"]
                             ELSE Catch(r, "firestore_throw")
  /\ UNCHANGED <<cfgVars, tr, sy, cv, cache, now, call_analytics, numRequests, ss>>

\* The promise of an add() settles: the record is appended, or the rejection is
\* logged by .catch.
AnalyticsSettle ==
  /\ \E record \in pendingAdds, ok \in BOOLEAN :
       /\ pendingAdds' = pendingAdds \ {record}
       /\ call_analytics' = IF ok THEN Append(call_analytics, record) ELSE call_analytics
  /\ UNCHANGED <<cfgVars, tr, sy, cv, cache, now, numRequests, rq, ss>>

\* The handler is at an await of a call made without any timeout: db.query,
\* redis.get, redis.set, and the two axios.post (scheduling, synthesis).  The
\* translation client applies the request timeout of its library and is left
\* out.
AwaitsWithoutTimeout(r) ==
  \/ r.pc = "customer" /\ db
  \/ r.pc = "language" /\ NeedsDetection(r) /\ redis
  \/ r.pc = "cacheSet"
  \/ r.pc = "book"
  \/ r.pc = "tts" /\ ULTRAVOX_TTS_URL

\* The collaborator called never replies: the promise awaited never settles
\* and nothing else resumes the handler.
NoReply ==
  /\ AwaitsWithoutTimeout(rq)
  /\ rq' = [rq EXCEPT !.pc = "waiting"]
  /\ UNCHANGED <<cfgVars, tr, sy, cv, sharedVars, ss>>

\* Time passes between requests.
Tick ==
  /\ rq.pc \in {"idle", "done"}
  /\ now + TickSeconds <= MaxTime
  /\ now' = now + TickSeconds
  /\ UNCHANGED <<cfgVars, tr, sy, cv, cache, call_analytics, pendingAdds, numRequests, rq, ss>>

(***************************************************************************)
(* Step 4 of several requests in progress at once.  Each await of step 4   *)
(* yields to the event loop, so the handlers of other requests run between *)
(* the cache read, the detection call and the cache write of one request.  *)
(***************************************************************************)
\* The utterance text all of them carry; none carries a language hint.
ConcText == "t1"
Invocations == 1..MaxInvocations

\* The requests at step 4, and the codes translationClient.detect has
\* returned for the text so far (history).
CvInit ==
  [inv |-> [i \in Invocations |->
              [RqInit EXCEPT !.pc = "language", !.phoneNumber = TRUE,
                             !.speechResult = ConcText, !.customer = <<DemoCustomer>>]],
   returned |-> {}]

\* Step 4 of request i up to the reply of redis.get (or, with no cache, up to
\* the detection call).
ConcResolveLanguage(i) ==
  /\ cv.inv[i].pc = "language"
  /\ NeedsDetection(cv.inv[i])
  /\ IF redis
       THEN \E ok \in BOOLEAN :
              LET r == Count(cv.inv[i], "cacheGet")
                  value == CacheLookup(r.speechResult)
              IN  cv' = [cv EXCEPT !.inv[i] =
                           IF ok
                             THEN [r EXCEPT !.detectedLanguage = value,
                                            !.cacheResult =
                                               IF value # Undefined THEN "hit" ELSE "miss",
                                            !.pc = AfterCacheGet(value)]
                             ELSE [r EXCEPT !.detectedLanguage = "en",   \* catch (langError)
                                            !.cacheResult = "error",
                                            !.pc = "translateInput"]]
       ELSE cv' = [cv EXCEPT !.inv[i].pc = "detect"]
  /\ UNCHANGED <<cfgVars, tr, sy, sharedVars, rq, ss>>

\* Step 4 of request i: the reply of translationClient.detect(speechResult).
ConcDetect(i) ==
  /\ cv.inv[i].pc = "detect"
  /\ \E result \in DetectCodes \cup {"nolang", "threw"} :
       LET r == Count([cv.inv[i] EXCEPT !.detection = result], "detect")
       IN  cv' = [cv EXCEPT
                    !.returned = IF result \in DetectCodes THEN @ \cup {result} ELSE @,
                    !.inv[i] =
                      CASE result = "threw" ->
                             [r EXCEPT !.detectedLanguage = "en", !.pc = "translateInput"]
                        [] result = "nolang" ->
                             [r EXCEPT !.detectedLanguage = Undefined, !.pc = "translateInput"]
                        [] OTHER ->
                             [r EXCEPT !.detectedLanguage = result,
                                       !.pc = IF redis THEN "cacheSet" ELSE "translateInput"]]
  /\ UNCHANGED <<cfgVars, tr, sy, sharedVars, rq, ss>>

\* Step 4 of request i: the reply of redis.set(cacheKey, detectedLanguage, 'EX', 3600).
ConcCacheSet(i) ==
  /\ cv.inv[i].pc = "cacheSet"
  /\ \E ok \in BOOLEAN :
       LET r == Count(cv.inv[i], "cacheSet")
       IN  IF ok
             THEN /\ cache' = [cache EXCEPT ![r.speechResult] =
                                  [code |-> r.detectedLanguage, expires |-> now + CacheTTL]]
                  /\ cv' = [cv EXCEPT !.inv[i] = [r EXCEPT !.pc = "translateInput"]]
             ELSE /\ cache' = cache
                  /\ cv' = [cv EXCEPT !.inv[i] =
                              [r EXCEPT !.detectedLanguage = "en", !.pc = "translateInput"]]
  /\ UNCHANGED <<cfgVars, tr, sy, now, call_analytics, pendingAdds, numRequests, rq, ss>>

(***************************************************************************)
(* stream.js: the session aggregator                                       *)
(***************************************************************************)
\* Sentiment scores, in tenths: documentSentiment.score * 10.
Scores == {-9, -3, -2, 1, 2, 3}

\* Fields of a well-formed message; each may be absent.
Inputs      == {"u1"}            \* response.input
AgentTexts  == {"a1", "a2"}      \* response.text
StreamCodes == {"es", "de"}      \* response.detectedLanguage

SsInit ==
  [GOOGLE_API_KEY |-> FALSE,       \* is context.GOOGLE_API_KEY set
   transcript |-> << >>,           \* the lines of the transcript string
   detectedLanguage |-> "en",
   finalSentimentScore |-> 0,
   sentimentCount |-> 0,
   inFlight |-> 0,                 \* analyzeSentiment calls awaiting their reply
   received |-> 0,                 \* 'message' events so far
   closed |-> FALSE,
   summaries |-> << >>,            \* payloads passed to callback(null, ...)
   \* history of the session, read by the properties only:
   arrived |-> << >>,              \* utterances of the events, in arrival order
   firstHint |-> Undefined,        \* detectedLanguage of the first event that had one
   lastHint |-> Undefined,         \* detectedLanguage of the last event that had one
   malformedAt |-> 0,              \* which event was the last that failed to parse
   failures |-> << >>]             \* per failed analyzeSentiment call, the events received by then

\* Variant: the thresholds are inclusive.
Classify_Inclusive(finalSentimentScore, sentimentCount) ==
  IF sentimentCount > 0
    THEN IF finalSentimentScore >= ThresholdTenths * sentimentCount THEN "positive"
         ELSE IF finalSentimentScore <= -ThresholdTenths * sentimentCount THEN "negative"
         ELSE "neutral"
    ELSE "neutral"

\* ws.on('close'): the sentiment category.  avgScore = sum / count is compared
\* with 0.2 and -0.2; with scores in tenths and count > 0 that is
\* sum > 2 * count and sum < -2 * count.
Classify(finalSentimentScore, sentimentCount) ==
  IF sentimentCount > 0
    THEN IF finalSentimentScore > ThresholdTenths * sentimentCount THEN "positive"
         ELSE IF finalSentimentScore < -ThresholdTenths * sentimentCount THEN "negative"
         ELSE "neutral"
    ELSE "neutral"

\* transcript.trim().split('\nReceptionist: ').pop().split('\n')[0]:
\* the text after the last "\nReceptionist: " up to the end of that line; with no
\* such separator (no agent line after the first line) the whole first line,
\* label included.
LastAgentResponse(transcript) ==
  LET later == {i \in 2..Len(transcript) : transcript[i].who = "Receptionist"}
  IN  IF later # {}
        THEN LET last == CHOOSE i \in later : \A j \in later : j <= i
             IN  [label |-> Undefined, text |-> transcript[last].text]
        ELSE IF transcript # << >>
          THEN [label |-> transcript[1].who, text |-> transcript[1].text]
          ELSE [label |-> Undefined, text |-> Undefined]

\* Variant: a line is put in front of the transcript.
AppendLines_Prepends(transcript, input, text) ==
  LET t1 == IF input # Undefined
              THEN <<[who |-> "Caller", text |-> input]>> \o transcript ELSE transcript
  IN  IF text # Undefined THEN <<[who |-> "Receptionist", text |-> text]>> \o t1 ELSE t1

\* The transcript after the two appends of ws.on('message').
AppendLines(transcript, input, text) ==
  LET t1 == IF input # Undefined
              THEN Append(transcript, [who |-> "Caller", text |-> input]) ELSE transcript
  IN  IF text # Undefined THEN Append(t1, [who |-> "Receptionist", text |-> text]) ELSE t1

\* Variant: only the first language of the session is kept.
UpdateLanguage_FirstWins(detectedLanguage, code) ==
  IF code # Undefined /\ detectedLanguage = "en" THEN code ELSE detectedLanguage

\* if (response.detectedLanguage) detectedLanguage = response.detectedLanguage
UpdateLanguage(detectedLanguage, code) ==
  IF code # Undefined THEN code ELSE detectedLanguage

\* Variant: the catch starts the transcript and the language afresh.
OnParseError_Resets(s) ==
  [s EXCEPT !.received = @ + 1, !.transcript = << >>, !.detectedLanguage = "en"]

\* catch (parseError): the payload is logged; no local is assigned.
OnParseError(s) == [s EXCEPT !.received = @ + 1]

\* Variant: a failed scoring call counts as a score of 0.
OnScoreReply_FailureCounts(s, ok, score) ==
  IF ok
    THEN [s EXCEPT !.inFlight = @ - 1,
                   !.finalSentimentScore = @ + score,
                   !.sentimentCount = @ + 1]
    ELSE [s EXCEPT !.inFlight = @ - 1, !.sentimentCount = @ + 1]

\* The locals after the reply of analyzeSentiment: a reply with a
\* documentSentiment adds to the sum and the count; an error is logged.
OnScoreReply(s, ok, score) ==
  IF ok
    THEN [s EXCEPT !.inFlight = @ - 1,
                   !.finalSentimentScore = @ + score,
                   !.sentimentCount = @ + 1]
    ELSE [s EXCEPT !.inFlight = @ - 1]

\* ws.on('message') up to its await: a malformed payload is caught and logged;
\* a well-formed one updates the transcript and the language and, for caller
\* input with an API key, starts a sentiment-scoring call.
OnMessage ==
  /\ ~ss.closed
  /\ ss.received < MaxMessages
  /\ \/ ss' = [OnParseError(ss) EXCEPT !.malformedAt = ss.received + 1]     \* JSON.parse throws
     \/ \E input \in Inputs \cup {Undefined}, text \in AgentTexts \cup {Undefined},
           code \in StreamCodes \cup {Undefined} :
          ss' = [ss EXCEPT
                   !.received = @ + 1,
                   !.transcript = AppendLines(@, input, text),
                   !.detectedLanguage = UpdateLanguage(@, code),
                   !.inFlight = IF input # Undefined /\ ss.GOOGLE_API_KEY THEN @ + 1 ELSE @,
                   !.arrived = @ \o (IF input # Undefined
                                       THEN <<[who |-> "Caller", text |-> input]>>
                                       ELSE << >>)
                                 \o (IF text # Undefined
                                       THEN <<[who |-> "Receptionist", text |-> text]>>
                                       ELSE << >>),
                   !.firstHint = IF code # Undefined /\ @ = Undefined THEN code ELSE @,
                   !.lastHint = IF code # Undefined THEN code ELSE @]
  /\ UNCHANGED <<cfgVars, tr, sy, cv, sharedVars, rq>>

\* ws.on('message') after its await: the reply of analyzeSentiment.  A reply
\* with a documentSentiment adds to the sum and count; an error is logged.
ScoreReply ==
  /\ ss.inFlight > 0
  /\ \E ok \in BOOLEAN, score \in Scores :
       ss' = [OnScoreReply(ss, ok, score) EXCEPT !.failures = IF ok THEN @ ELSE Append(@, ss.received)]
  /\ UNCHANGED <<cfgVars, tr, sy, cv, sharedVars, rq>>

\* Variant: the close handler runs again on a closed session.
Close_Repeats ==
  /\ ss' = [ss EXCEPT
              !.closed = TRUE,
              !.summaries = Append(@,
                 [text |-> LastAgentResponse(ss.transcript),
                  transcript |-> ss.transcript,
                  sentiment |-> Classify(ss.finalSentimentScore, ss.sentimentCount),
                  detectedLanguage |-> ss.detectedLanguage])]
  /\ UNCHANGED <<cfgVars, tr, sy, cv, sharedVars, rq>>

\* ws.on('close'): classify, extract the last agent response, call back.
Close ==
  /\ ~ss.closed
  /\ ss' = [ss EXCEPT
              !.closed = TRUE,
              !.summaries = Append(@,
                 [text |-> LastAgentResponse(ss.transcript),
                  transcript |-> ss.transcript,
                  sentiment |-> Classify(ss.finalSentimentScore, ss.sentimentCount),
                  detectedLanguage |-> ss.detectedLanguage])]
  /\ UNCHANGED <<cfgVars, tr, sy, cv, sharedVars, rq>>

(***************************************************************************)
(* Specification of the /voice handler                                     *)
(***************************************************************************)
Init ==
  /\ translationClient \in BOOLEAN
  /\ db \in BOOLEAN
  /\ redis \in BOOLEAN
  /\ EASY_APPOINTMENTS \in BOOLEAN
  /\ ULTRAVOX_TTS_URL \in BOOLEAN
  /\ DEFAULT_APPOINTMENT_DURATION = <<"num", DefaultDuration>>
  /\ hostTz = 0
  /\ hourCycle24 = FALSE
  /\ cache = [t \in Texts |-> NoEntry]
  /\ now = 0
  /\ call_analytics = << >>
  /\ pendingAdds = {}
  /\ numRequests = 0
  /\ rq = RqInit
  /\ ss = SsInit
  /\ tr = TrInit
  /\ sy = SyInit
  /\ cv = CvInit

Next ==
  \/ Receive
  \/ Validate
  \/ GetCustomer
  \/ ResolveLanguage
  \/ Detect
  \/ CacheSet
  \/ TranslateInput
  \/ ParseTime
  \/ Process
  \/ BookAppointment
  \/ TranslateReply
  \/ Synthesize
  \/ SendResponse
  \/ SaveAnalytics
  \/ AnalyticsSettle
  \/ Tick

Spec == Init /\ [][Next]_vars

(***************************************************************************)
(* Specification of the /voice handler with every collaborator configured, *)
(* where a collaborator may also never reply.  The event loop resumes the   *)
(* handler whenever it has a step to take: weak fairness of its steps.      *)
(***************************************************************************)
InitLive ==
  /\ translationClient = TRUE /\ db = TRUE /\ redis = TRUE
  /\ EASY_APPOINTMENTS = TRUE /\ ULTRAVOX_TTS_URL = TRUE
  /\ DEFAULT_APPOINTMENT_DURATION = <<"num", DefaultDuration>>
  /\ hostTz = 0 /\ hourCycle24 = FALSE
  /\ cache = [t \in Texts |-> NoEntry]
  /\ now = 0 /\ call_analytics = << >> /\ pendingAdds = {} /\ numRequests = 0
  /\ rq = RqInit
  /\ ss = SsInit
  /\ tr = TrInit
  /\ sy = SyInit
  /\ cv = CvInit

HandlerStep ==
  \/ Validate \/ GetCustomer \/ ResolveLanguage \/ Detect \/ CacheSet
  \/ TranslateInput \/ ParseTime \/ Process \/ BookAppointment
  \/ TranslateReply \/ Synthesize \/ SendResponse \/ SaveAnalytics

NextLive ==
  \/ Receive
  \/ HandlerStep
  \/ NoReply
  \/ AnalyticsSettle
  \/ Tick

SpecLive == InitLive /\ [][NextLive]_vars /\ WF_vars(HandlerStep)

(***************************************************************************)
(* Specification of one streaming session; no /voice request is handled.   *)
(***************************************************************************)
InitStream ==
  /\ translationClient = FALSE /\ db = FALSE /\ redis = FALSE
  /\ EASY_APPOINTMENTS = FALSE /\ ULTRAVOX_TTS_URL = FALSE
  /\ DEFAULT_APPOINTMENT_DURATION = <<"num", DefaultDuration>>
  /\ hostTz = 0 /\ hourCycle24 = FALSE
  /\ cache = [t \in Texts |-> NoEntry]
  /\ now = 0 /\ call_analytics = << >> /\ pendingAdds = {} /\ numRequests = 0
  /\ rq = RqInit
  /\ \E key \in BOOLEAN : ss = [SsInit EXCEPT !.GOOGLE_API_KEY = key]
  /\ tr = TrInit
  /\ sy = SyInit
  /\ cv = CvInit

NextStream ==
  \/ OnMessage
  \/ ScoreReply
  \/ Close

SpecStream == InitStream /\ [][NextStream]_vars

(***************************************************************************)
(* Specification of step 7a alone: a request that has a customer and a     *)
(* parsed start instant, for every start, duration setting, time zone and  *)
(* hour format of the host.                                                *)
(***************************************************************************)
InitTime ==
  /\ translationClient = FALSE /\ db = FALSE /\ redis = FALSE
  /\ EASY_APPOINTMENTS = TRUE /\ ULTRAVOX_TTS_URL = FALSE
  /\ DEFAULT_APPOINTMENT_DURATION \in Durations
  /\ hostTz \in TzOffsets
  /\ hourCycle24 \in BOOLEAN
  /\ cache = [t \in Texts |-> NoEntry]
  /\ now = 0 /\ call_analytics = << >> /\ pendingAdds = {} /\ numRequests = 1
  /\ \E start \in ClockInstants :
       rq = [RqInit EXCEPT !.pc = "process", !.phoneNumber = TRUE, !.speechResult = "t1",
                           !.detectedLanguage = "en", !.customer = <<DemoCustomer>>,
                           !.textToParse = <<Msg("t1", "orig")>>,
                           !.appointmentStart = <<start>>]
  /\ ss = SsInit
  /\ tr = TrInit
  /\ sy = SyInit
  /\ cv = CvInit

NextTime ==
  \/ Process
  \/ BookAppointment

SpecTime == InitTime /\ [][NextTime]_vars

(***************************************************************************)
(* Specification of translateText alone: calls with every combination of   *)
(* text, source and target language, with and without a provider.          *)
(***************************************************************************)
InitTranslate ==
  /\ translationClient \in BOOLEAN
  /\ db = FALSE /\ redis = FALSE
  /\ EASY_APPOINTMENTS = FALSE /\ ULTRAVOX_TTS_URL = FALSE
  /\ DEFAULT_APPOINTMENT_DURATION = <<"num", DefaultDuration>>
  /\ hostTz = 0 /\ hourCycle24 = FALSE
  /\ cache = [t \in Texts |-> NoEntry]
  /\ now = 0 /\ call_analytics = << >> /\ pendingAdds = {} /\ numRequests = 0
  /\ rq = RqInit
  /\ ss = SsInit
  /\ tr = TrInit
  /\ sy = SyInit
  /\ cv = CvInit

NextTranslate == CallTranslateText

SpecTranslate == InitTranslate /\ [][NextTranslate]_vars

(***************************************************************************)
(* Specification of ultravoxTextToSpeech alone: calls with every text and  *)
(* language, with and without a synthesis endpoint.                        *)
(***************************************************************************)
InitSynth ==
  /\ translationClient = FALSE /\ db = FALSE /\ redis = FALSE
  /\ EASY_APPOINTMENTS = FALSE
  /\ ULTRAVOX_TTS_URL \in BOOLEAN
  /\ DEFAULT_APPOINTMENT_DURATION = <<"num", DefaultDuration>>
  /\ hostTz = 0 /\ hourCycle24 = FALSE
  /\ cache = [t \in Texts |-> NoEntry]
  /\ now = 0 /\ call_analytics = << >> /\ pendingAdds = {} /\ numRequests = 0
  /\ rq = RqInit
  /\ ss = SsInit
  /\ tr = TrInit
  /\ sy = SyInit
  /\ cv = CvInit

NextSynth == CallTextToSpeech

SpecSynth == InitSynth /\ [][NextSynth]_vars

(***************************************************************************)
(* Specification of step 4 of several requests in progress at once, with a *)
(* detection provider and with or without a cache; time passes.            *)
(***************************************************************************)
InitConc ==
  /\ translationClient = TRUE /\ db = FALSE
  /\ redis \in BOOLEAN
  /\ EASY_APPOINTMENTS = FALSE /\ ULTRAVOX_TTS_URL = FALSE
  /\ DEFAULT_APPOINTMENT_DURATION = <<"num", DefaultDuration>>
  /\ hostTz = 0 /\ hourCycle24 = FALSE
  /\ cache = [t \in Texts |-> NoEntry]
  /\ now = 0 /\ call_analytics = << >> /\ pendingAdds = {} /\ numRequests = 0
  /\ rq = RqInit
  /\ ss = SsInit
  /\ tr = TrInit
  /\ sy = SyInit
  /\ cv = CvInit

NextConc ==
  \/ \E i \in Invocations : ConcResolveLanguage(i)
  \/ \E i \in Invocations : ConcDetect(i)
  \/ \E i \in Invocations : ConcCacheSet(i)
  \/ Tick

SpecConc == InitConc /\ [][NextConc]_vars

TypeOK == rq.pc \in {"idle", "validate", "customer", "language", "detect", "cacheSet",
                     "translateInput", "parse", "process", "book", "translateReply",
                     "tts", "send", "analytics", "done", "waiting"}

(***************************************************************************)
(* Properties                                                              *)
(***************************************************************************)
Done == rq.pc = "done"

\* The request passed validation and customer lookup and finished step 4.
PastLanguage ==
  /\ rq.customer # << >>
  /\ rq.pc \in {"translateInput", "parse", "process", "book", "translateReply",
                "tts", "send", "analytics", "done"}

\* The request is between the end of step 4 and its end: the cache and the
\* clock are as they were when step 4 read them, unless the request wrote.
InFlightPastLanguage == PastLanguage /\ ~Done

\* C1: every request gets exactly one res.json call: one when the handler has
\* ended, and never more than one.
C1_ExactlyOneResponse ==
  /\ Len(rq.sends) <= 1
  /\ Done => Len(rq.sends) = 1

\* C2: once the stream is closed and no scoring call is outstanding, the
\* emitted sentiment is the category of the sum and count of all successful
\* scoring calls.
C2_FinalSentimentOverAllScores ==
  (ss.closed /\ ss.inFlight = 0) =>
     ss.summaries[1].sentiment = Classify(ss.finalSentimentScore, ss.sentimentCount)

\* C3: the step that closes the stream emits neutral for count 0, and
\* otherwise positive iff sum/count > 0.2, negative iff sum/count < -0.2,
\* neutral in every other case (the boundaries included).
C3_SentimentAtClose ==
  [][ (~ss.closed /\ ss'.closed) =>
        LET sum     == ss.finalSentimentScore
            count   == ss.sentimentCount
            emitted == ss'.summaries[Len(ss'.summaries)].sentiment
        IN  /\ Len(ss'.summaries) = 1
            /\ count = 0 => emitted = "neutral"
            /\ count > 0 =>
                 /\ emitted = "positive" <=> sum > ThresholdTenths * count
                 /\ emitted = "negative" <=> sum < -ThresholdTenths * count
                 /\ emitted = "neutral"  <=>
                      (sum <= ThresholdTenths * count /\ sum >= -ThresholdTenths * count) ]_vars

\* C3 witness: a stream closed with an average of exactly 0.2 over at least two
\* scores, reported neutral.
C3_Witness ==
  /\ ss.closed /\ ss.inFlight = 0
  /\ ss.sentimentCount >= 2
  /\ ss.finalSentimentScore = ThresholdTenths * ss.sentimentCount
  /\ ss.summaries[1].sentiment = "neutral"

\* C4: in a request that carries a language hint the resolved language is the
\* hint, and the request reads no cache entry, writes none and makes no
\* detection call.
C4_HintShortCircuits ==
  rq.hint # Undefined =>
    /\ rq.detectedLanguage = rq.hint
    /\ rq.calls.cacheGet = 0
    /\ rq.calls.cacheSet = 0
    /\ rq.calls.detect = 0

\* C4 witness: a request with a hint and a text went through step 4 with the
\* detection provider and the cache configured and an unexpired entry for its
\* text in the cache.
C4_Witness ==
  /\ rq.hint # Undefined /\ rq.speechResult # Undefined
  /\ translationClient /\ redis
  /\ InFlightPastLanguage
  /\ CacheLookup(rq.speechResult) # Undefined
  /\ CacheLookup(rq.speechResult) # rq.hint

\* C5 as stated: with no hint, whenever the cache holds an unexpired entry for
\* the text (one this request did not write), the resolved language is the
\* cached code and no detection call was made.
C5_HeldEntryResolves ==
  (/\ InFlightPastLanguage
   /\ rq.hint = Undefined /\ rq.speechResult # Undefined
   /\ rq.calls.cacheSet = 0
   /\ CacheLookup(rq.speechResult) # Undefined)
  => /\ rq.detectedLanguage = CacheLookup(rq.speechResult)
     /\ rq.calls.detect = 0

\* C5 amended: with no hint, when the cache read returns an unexpired entry for
\* the text, the resolved language is the cached code and no detection call is
\* made; when the cache read fails, the resolved language is "en", again with
\* no detection call.
C5_CacheHitShortCircuits ==
  /\ rq.cacheResult = "hit" =>
       /\ rq.hint = Undefined
       /\ rq.calls.detect = 0 /\ rq.pc # "detect"
       /\ rq.detectedLanguage = cache[rq.speechResult].code
  /\ rq.cacheResult = "error" =>
       /\ rq.calls.detect = 0 /\ rq.pc # "detect"
       /\ rq.detectedLanguage = "en"

\* C5 witness: a request without a hint finished step 4 on a cache hit with a
\* code other than the default.
C5_Witness ==
  /\ rq.cacheResult = "hit" /\ PastLanguage
  /\ rq.detectedLanguage = "es"

\* C6: after step 4, a detection call that threw leaves the default "en" and
\* no cache write; a detection call that returned a code leaves that code as
\* the resolved language, stored in the cache (when there is one) for 3600 s.
C6_DetectionOutcome ==
  InFlightPastLanguage =>
    /\ rq.detection = "threw" =>
         (rq.detectedLanguage = "en" /\ rq.calls.cacheSet = 0)
    /\ rq.detection \in DetectCodes =>
         /\ rq.detectedLanguage = rq.detection
         /\ redis => cache[rq.speechResult] =
                       [code |-> rq.detection, expires |-> now + CacheTTL]

\* C7: after step 4 of a request that passed validation and customer lookup
\* the resolved language is never absent, and it is "en" when there is no hint
\* and no text or no detection provider.
C7_LanguageNeverEmpty ==
  PastLanguage =>
    /\ rq.detectedLanguage # Undefined
    /\ (rq.hint = Undefined /\ (rq.speechResult = Undefined \/ ~translationClient))
         => rq.detectedLanguage = "en"

\* The terminal outcomes of the booking state machine.
TerminalOutcomes == {"CustomerMissing", "NotParsed", "Booked", "BookingFailed"}

\* The scheduling call has been reached.
BookingReached == rq.pc = "book" \/ rq.calls.sched > 0

\* A request that passed validation ends with its response in one terminal outcome.
EndsInOneOutcome ==
  (Done /\ rq.phoneNumber) =>
     (Len(rq.sends) >= 1 /\ rq.sends[1].outcome \in TerminalOutcomes)

C9_AtMostOneSchedulingCall ==
  /\ rq.calls.sched <= 1
  /\ rq.eaResult = "error" =>
       /\ rq.pc # "book"
       /\ Done => /\ rq.sends[1].status = 500
                   /\ rq.sends[1].outcome = "BookingFailed"
                   /\ rq.sends[1].spoken.msg = "generic_error"

\* C9 witness: a request ended after its scheduling call failed.
C9_Witness ==
  Done /\ rq.eaResult = "error" /\ rq.calls.sched = 1

\* C10: the end sent to the scheduler is the start sent plus the configured
\* duration, as instants; so the end is after the start.
C10_EndIsStartPlusDuration ==
  rq.eaRequest # << >> =>
    /\ SentInstant(rq.eaRequest[1].end) =
         SentInstant(rq.eaRequest[1].start) + DEFAULT_APPOINTMENT_DURATION[2]
    /\ SentInstant(rq.eaRequest[1].end) > SentInstant(rq.eaRequest[1].start)

\* The request entered step 7a (the booking branch).
EnteredBooking == rq.times # << >>

\* The outcome of step 7a is known: the scheduling call returned, or the
\* configuration check threw before it.
SchedulingResultKnown ==
  rq.eaResult # Undefined \/ rq.error = "Easy!Appointments URL or API Key not configured."

\* C11: in a request that entered the booking branch, every step that
\* synthesizes speech happens with the scheduling result known and no
\* scheduling call outstanding; the step that sends the response happens with
\* no analytics write started; every step that starts an analytics write
\* happens with the response already sent, and the handler does not stay at
\* the write: it moves on in the same step, whether or not the write settles.
C11_SideEffectOrder ==
  [][ EnteredBooking =>
        /\ (rq.pc = "tts" /\ rq'.pc # "tts") =>
              (SchedulingResultKnown /\ rq.calls.sched = rq'.calls.sched)
        /\ (Len(rq.sends) = 0 /\ Len(rq'.sends) = 1) =>
              /\ SchedulingResultKnown
              /\ rq.voiceResponse # << >>
              /\ rq.calls.add = 0 /\ pendingAdds = {} /\ call_analytics = << >>
        /\ (rq'.calls.add > rq.calls.add) =>
              /\ Len(rq.sends) >= 1
              /\ rq'.pc # "analytics" ]_vars

\* C11 witness: a request whose scheduling call returned has ended with its
\* response sent while its analytics write is still pending.
C11_Witness ==
  /\ Done /\ rq.calls.sched = 1 /\ Len(rq.sends) = 1
  /\ rq.calls.add = 1
  /\ pendingAdds # {} /\ call_analytics = << >>

\* The replies produced before a customer is known: steps 2 and 3.
EarlyBranches == {"reject", "missing", "dberror"}

\* C12 as stated: a request that has completed with a response, all its writes
\* settled, has exactly one record in the analytics store; the write is
\* started only after the response was sent.
C12_OneRecordPerResponse ==
  /\ rq.calls.add > 0 => Len(rq.sends) >= 1
  /\ (Done /\ Len(rq.sends) >= 1 /\ pendingAdds = {}) => Len(call_analytics) = 1

\* C12 amended: a request that completes with a response after its customer
\* was resolved (booked, not parsed, failed in steps 7-8) attempts exactly one
\* analytics write, after the response was sent, and at most one record is
\* appended for it (none when the write fails); a request answered in step 2
\* or step 3 attempts none; no request appends two records.
C12_AtMostOneRecordAfterResponse ==
  /\ rq.calls.add <= 1
  /\ Cardinality(pendingAdds) + Len(call_analytics) <= rq.calls.add
  /\ rq.calls.add > 0 => Len(rq.sends) >= 1
  /\ (Done /\ rq.branch \notin EarlyBranches) => rq.calls.add = 1
  /\ rq.branch \in EarlyBranches => rq.calls.add = 0
  /\ \A i \in 1..Len(call_analytics) : call_analytics[i].request = numRequests

\* C12 witness: a booked request has ended and its one record is appended.
C12_Witness ==
  /\ Done /\ Len(rq.sends) = 1 /\ rq.sends[1].outcome = "Booked"
  /\ pendingAdds = {} /\ Len(call_analytics) = 1
  /\ call_analytics[1].appointmentBooked

\* C13: once the analytics write of a request was attempted, whatever becomes
\* of it, the request keeps its single response, the handler does not enter
\* its error path and no error leaves the handler.
C13_AnalyticsFailureSwallowed ==
  rq.calls.add > 0 =>
    /\ Len(rq.sends) = 1
    /\ rq.pc = "done"
    /\ ~rq.rejected

\* An operational failure occurred in the request: the customer datastore
\* failed, the scheduling call failed, or the scheduler is not configured.
OperationalFailure ==
  \/ rq.lookupResult = "error"
  \/ rq.eaResult = "error"
  \/ rq.error = "Easy!Appointments URL or API Key not configured."

\* C14: the status of the response is 400 exactly when the phone number is
\* missing, 500 exactly when an operational failure occurred, and 200 in every
\* other case.
C14_StatusByCause ==
  Len(rq.sends) >= 1 =>
    LET status == rq.sends[1].status
    IN  /\ status \in {200, 400, 500}
        /\ status = 400 <=> ~rq.phoneNumber
        /\ status = 500 <=> (rq.phoneNumber /\ OperationalFailure)

\* The message of the text a voice response was synthesized from.
SpokenMsg(send) == send.spoken.msg

\* C15: a request whose customer lookup finds no customer produces the "record
\* not found" reply and nothing else: no language resolution, no time
\* extraction, no scheduling call, no analytics write; it ends with status 200
\* in CustomerMissing.  A lookup that fails ends with status 500 and the
\* database-error message instead.
C15_CustomerMissingIsTerminal ==
  /\ rq.lookupResult = "missing" =>
       /\ rq.branch = "missing" /\ rq.pc \in {"tts", "send", "done"}
       /\ rq.customer = << >>
       /\ rq.textToParse = << >> /\ rq.appointmentStart = << >>
       /\ rq.calls.sched = 0 /\ rq.eaRequest = << >>
       /\ rq.calls.add = 0 /\ pendingAdds = {} /\ call_analytics = << >>
       /\ Done => /\ Len(rq.sends) = 1
                   /\ rq.sends[1].status = 200
                   /\ rq.sends[1].outcome = "CustomerMissing"
                   /\ SpokenMsg(rq.sends[1]) = "not_found"
                   /\ ~rq.rejected
  /\ (rq.lookupResult = "error" /\ Done) =>
       /\ Len(rq.sends) = 1
       /\ rq.sends[1].status = 500
       /\ rq.sends[1].outcome = "BookingFailed"
       /\ SpokenMsg(rq.sends[1]) = "db_error"

\* C15 witness: a request with speech whose lookup found no customer has ended
\* with the "record not found" reply.
C15_Witness ==
  /\ Done /\ rq.lookupResult = "missing" /\ rq.speechResult # Undefined
  /\ SpokenMsg(rq.sends[1]) = "not_found"

\* The analytics records of the request: those being written and those appended.
RecordsOfRequest == pendingAdds \cup {call_analytics[i] : i \in 1..Len(call_analytics)}

\* C16: a record written for a request has appointmentBooked = TRUE exactly
\* when the scheduling call of the request succeeded, and then carries the
\* appointment id the scheduler returned; for a request with a customer and no
\* start instant it has appointmentBooked = FALSE and failureReason "Parsing
\* failed", and no scheduling call was made.
C16_RecordReflectsOutcome ==
  \A record \in RecordsOfRequest :
    /\ record.appointmentBooked <=> rq.eaResult \in {"ok", "noid"}
    /\ record.appointmentBooked =>
         (record.appointmentId = <<rq.bookedAppointmentId>> /\ record.appointmentId # <<Undefined>>)
    /\ (rq.customer # << >> /\ rq.appointmentStart = << >>) =>
         /\ ~record.appointmentBooked
         /\ record.failureReason = <<"Parsing failed">>
         /\ rq.calls.sched = 0

\* The scheduling call of a request with a customer and a start instant failed.
SchedulingErrored ==
  rq.eaResult = "error" /\ rq.customer # << >> /\ rq.appointmentStart # << >>

\* C17 as stated: when the scheduling call fails, the request ends in
\* BookingFailed with status 500, and its analytics record has
\* appointmentBooked = FALSE and a failureReason that is the error's reason,
\* nothing added.
C17_FailureReasonVerbatim ==
  SchedulingErrored =>
    /\ Done => (rq.sends[1].status = 500 /\ rq.sends[1].outcome = "BookingFailed")
    /\ \A record \in RecordsOfRequest :
         ~record.appointmentBooked /\ record.failureReason = <<rq.error>>

\* C17 amended: when the scheduling call fails, the request ends in
\* BookingFailed with status 500 and attempts one analytics write, and a
\* record written has appointmentBooked = FALSE, no appointment id, and as
\* failureReason the text "Server error: " followed by the message of the
\* scheduling error.
C17_FailureReasonPrefixed ==
  SchedulingErrored =>
    /\ rq.error = "ea_error"
    /\ Done => /\ rq.sends[1].status = 500
                /\ rq.sends[1].outcome = "BookingFailed"
                /\ rq.calls.add = 1
    /\ \A record \in RecordsOfRequest :
         /\ ~record.appointmentBooked
         /\ record.appointmentId = << >>
         /\ record.failureReason = <<"Server error: ", "ea_error">>

\* C17 witness: a request of a found customer whose scheduling call failed has
\* ended, and its record is appended.
C17_Witness ==
  /\ Done /\ SchedulingErrored /\ rq.lookupResult = "found"
  /\ pendingAdds = {} /\ Len(call_analytics) = 1

\* C18: a call of translateText with equal source and target language, or an
\* empty text, or no translation provider configured, returns the text it was
\* given and makes no provider call.
C18_TranslateNoOp ==
  (/\ tr.called
   /\ \/ tr.sourceLang = tr.targetLang
      \/ tr.text.msg = Undefined
      \/ ~translationClient)
  => (tr.result = tr.text /\ tr.providerCalls = 0)

\* C18 witness: with a provider configured, a call with a text and the same
\* source and target language returned the text.
C18_Witness ==
  /\ tr.called /\ translationClient
  /\ tr.text.msg # Undefined /\ tr.sourceLang = "es" /\ tr.targetLang = "es"
  /\ tr.result = tr.text

\* The request is past step 6.
PastParse ==
  rq.pc \in {"process", "book", "translateReply", "tts", "send", "analytics", "done"}
    /\ rq.customer # << >>

\* Step 5 called the translation provider and the call failed: the text to
\* parse is still the text as spoken.
InputTranslationFailed ==
  /\ PastParse /\ rq.speechResult # Undefined /\ rq.detectedLanguage # "en"
  /\ TranslateCallsProvider(Msg(rq.speechResult, "orig"), rq.detectedLanguage, "en")
  /\ rq.textToParse # << >> /\ rq.textToParse[1].lang = "orig"

\* The message each reply of steps 7-8 is made of.
BranchMsg(branch) ==
  CASE branch = "booked"    -> "confirmation"
    [] branch = "notparsed" -> "not_parsed"
    [] branch = "error"     -> "generic_error"

\* C19 as stated: when the translation of the input fails, the original text
\* is what comes back, and the request goes on to the outcome it has when the
\* translation succeeds: a start instant is extracted exactly when one is
\* extracted from the translated text.
C19_TranslationFailureKeepsOutcome ==
  InputTranslationFailed =>
    /\ rq.textToParse = <<Msg(rq.speechResult, "orig")>>
    /\ rq.appointmentStart # << >> <=> ChronoReads(Msg(rq.speechResult, "en"))

\* C19 amended: a failed translation call returns the original text and raises
\* nothing.  In step 5 the text as spoken is then parsed in place of its
\* translation, and the request takes the outcome of that text.  In steps 7b,
\* 7e and 8 the reply keeps its message, untranslated; which reply is sent, and
\* with it outcome and status, does not depend on the translation of the reply.
C19_TranslationFailureFallsBack ==
  /\ InputTranslationFailed =>
       /\ rq.textToParse = <<Msg(rq.speechResult, "orig")>>
       /\ rq.appointmentStart # << >> <=> ChronoReads(Msg(rq.speechResult, "orig"))
       /\ rq.pc = "process" => (rq.error = Undefined /\ rq.branch = Undefined)
  /\ (rq.pc \in {"tts", "send"} /\ rq.branch \notin EarlyBranches) =>
       /\ rq.reply[1].msg = BranchMsg(rq.branch)
       /\ rq.reply[1].lang \in {"en", rq.detectedLanguage}
  /\ (Len(rq.sends) >= 1 /\ rq.customer # << >>) =>
       /\ rq.sends[1].outcome = "NotParsed" <=> ~CanBook(rq)
       /\ rq.sends[1].outcome = "Booked" <=>
            (rq.eaResult \in {"ok", "noid"} /\ rq.detectedLanguage \notin MalformedLocales)
       /\ rq.sends[1].status = 200 <=> rq.sends[1].outcome \in {"NotParsed", "Booked"}

\* C19 witness: a request whose text names a time readable only in translation
\* ended not parsed after the translation of its input failed; the
\* translation of the reply was called too.
C19_Witness ==
  /\ Done /\ InputTranslationFailed /\ rq.speechResult = "t1"
  /\ rq.calls.translate = 2
  /\ rq.sends[1].outcome = "NotParsed"

\* C20: every request received eventually gets its response.
C20_EveryRequestAnswered ==
  (rq.pc = "validate") ~> (Len(rq.sends) >= 1)

\* The request is being handled: the clock stands still, and the cache changes
\* only by the request's own write.
InFlight == rq.pc \notin {"idle", "done"}

\* The entry for the text is in the cache and its TTL has not elapsed.
EntryLive(text) == cache[text].code # Undefined /\ now < cache[text].expires

\* C21: a cache read of step 4 is a hit only on an entry written less than
\* 3600 s before, and the request resolves to its code; a read that finds no
\* entry, or one whose TTL has elapsed, is a miss, and the request goes on to
\* the detection call.
C21_HitOnlyWithinTTL ==
  InFlight =>
    /\ rq.cacheResult = "hit" =>
         /\ EntryLive(rq.speechResult)
         /\ cache[rq.speechResult].expires - CacheTTL <= now
         /\ rq.detectedLanguage = cache[rq.speechResult].code
    /\ (rq.cacheResult = "miss" /\ rq.calls.cacheSet = 0) =>
         /\ ~EntryLive(rq.speechResult)
         /\ rq.pc = "detect" \/ rq.calls.detect = 1

\* C21 witness: a request read the cache 3600 s after the entry for its text
\* was written, missed, and its detection call has returned a code.
C21_Witness ==
  /\ rq.pc = "cacheSet" /\ rq.cacheResult = "miss" /\ rq.calls.detect = 1
  /\ cache[rq.speechResult].code # Undefined
  /\ now = cache[rq.speechResult].expires

\* The request is past step 3.
PastCustomerStep == rq.pc \notin {"idle", "validate", "customer", "waiting"}

\* Time extraction or the scheduling step has been reached.
ExtractionReached ==
  \/ rq.pc \in {"parse", "process", "book"}
  \/ rq.appointmentStart # << >> \/ rq.times # << >> \/ rq.calls.sched > 0

\* C22 as stated: in every configuration, a request with a phone number makes
\* exactly one customer lookup, and has made it when time extraction or
\* scheduling is reached.
C22_OneLookupAlways ==
  /\ rq.calls.lookup <= 1
  /\ (rq.phoneNumber /\ PastCustomerStep) => rq.calls.lookup = 1
  /\ ExtractionReached => rq.calls.lookup = 1

\* C22 amended: with a customer datastore configured, a request with a phone
\* number makes exactly one lookup, before any time extraction or scheduling
\* call, which are reached only when it found a customer; with no datastore
\* configured it makes no lookup and goes on with the demo customer.  A
\* request without a phone number makes none.
C22_OneLookupWhenConfigured ==
  /\ rq.calls.lookup <= 1
  /\ ~rq.phoneNumber => rq.calls.lookup = 0
  /\ (rq.phoneNumber /\ PastCustomerStep) => rq.calls.lookup = (IF db THEN 1 ELSE 0)
  /\ ExtractionReached =>
       IF db THEN rq.calls.lookup = 1 /\ rq.lookupResult = "found"
             ELSE rq.calls.lookup = 0 /\ rq.customer = <<DemoCustomer>>

\* C22 witness: with a datastore configured, a request made its one lookup and
\* went on to one scheduling call.
C22_Witness ==
  /\ Done /\ db /\ rq.calls.lookup = 1 /\ rq.calls.sched = 1

\* Two texts agree on their first 10 characters.
SamePrefix(a, b) ==
  LET ca == Chars(a)
      cb == Chars(b)
      n  == IF Len(ca) < PrefixLen THEN Len(ca) ELSE PrefixLen
  IN  /\ (IF Len(cb) < PrefixLen THEN Len(cb) ELSE PrefixLen) = n
      /\ \A i \in 1..n : ca[i] = cb[i]

C24_TranscriptInArrivalOrder ==
  /\ ss.transcript = ss.arrived
  /\ ss.closed => ss.summaries[1].transcript = ss.arrived

\* C24 witness: a closed session of three events with caller and agent
\* utterances, where one scoring call replied before the close and another
\* was still awaited at the close.
C24_Witness ==
  /\ ss.closed /\ ss.received = MaxMessages
  /\ ss.sentimentCount = 1 /\ ss.inFlight >= 1
  /\ ss.summaries[1].transcript =
       <<[who |-> "Caller", text |-> "u1"], [who |-> "Receptionist", text |-> "a1"],
         [who |-> "Caller", text |-> "u1"], [who |-> "Receptionist", text |-> "a2"]>>

\* C25: the text field of the summary is the text of the most recent agent
\* utterance, and with no agent utterance it is not a caller line.
C25_LastAgentLine ==
  ss.closed =>
    LET agent == {i \in 1..Len(ss.arrived) : ss.arrived[i].who = "Receptionist"}
    IN  IF agent # {}
          THEN LET last == CHOOSE i \in agent : \A j \in agent : j <= i
               IN  ss.summaries[1].text = [label |-> Undefined, text |-> ss.arrived[last].text]
          ELSE ss.summaries[1].text.label # "Caller"

\* C26: the step that receives a malformed payload changes neither the
\* transcript, the detected language, the sentiment sum and count nor the
\* awaited calls, and at every moment the transcript and the language are
\* those of the well-formed events alone.
C26_MalformedDropped ==
  /\ [](/\ ss.transcript = ss.arrived
        /\ ss.detectedLanguage = (IF ss.lastHint = Undefined THEN "en" ELSE ss.lastHint))
  /\ [][ ss'.malformedAt # ss.malformedAt =>
           /\ ss'.transcript = ss.transcript
           /\ ss'.detectedLanguage = ss.detectedLanguage
           /\ ss'.finalSentimentScore = ss.finalSentimentScore
           /\ ss'.sentimentCount = ss.sentimentCount
           /\ ss'.inFlight = ss.inFlight
           /\ ss'.summaries = ss.summaries /\ ss'.closed = ss.closed ]_vars

\* C26 witness: the first payload was malformed, the two events after it
\* were processed, and the summary holds their lines and language.
C26_Witness ==
  /\ ss.closed /\ ss.malformedAt = 1 /\ ss.received = 3
  /\ ss.summaries[1].transcript =
       <<[who |-> "Caller", text |-> "u1"], [who |-> "Receptionist", text |-> "a2"]>>
  /\ ss.summaries[1].detectedLanguage = "es"

\* C27: a summary is emitted when the connection closes and only then, and no
\* step taken after the close emits another or changes the emitted one.
C27_SummaryOnceAndFinal ==
  /\ [](Len(ss.summaries) = (IF ss.closed THEN 1 ELSE 0))
  /\ [][ ss.closed => ss'.summaries = ss.summaries ]_vars

\* C27 witness: a scoring call replied after the close; the sum and count now
\* classify as positive and the emitted summary still says neutral.
C27_Witness ==
  /\ ss.closed /\ Len(ss.summaries) = 1
  /\ ss.inFlight = 0 /\ ss.sentimentCount = 1 /\ ss.failures = << >>
  /\ Classify(ss.finalSentimentScore, ss.sentimentCount) = "positive"
  /\ ss.summaries[1].sentiment = "neutral"
  /\ ss.summaries[1].transcript = <<[who |-> "Caller", text |-> "u1"]>>

\* C28: the step in which a scoring call fails changes neither the sentiment
\* sum and count nor the transcript, and starts no other call: the awaited
\* calls go down by one.
C28_ScoringFailureSwallowed ==
  [][ ss'.failures # ss.failures =>
        /\ ss'.finalSentimentScore = ss.finalSentimentScore
        /\ ss'.sentimentCount = ss.sentimentCount
        /\ ss'.transcript = ss.transcript
        /\ ss'.detectedLanguage = ss.detectedLanguage
        /\ ss'.inFlight = ss.inFlight - 1
        /\ ss'.received = ss.received ]_vars

\* C28 witness: the scoring call of the first utterance failed before the
\* second event arrived; the second event was processed and scored, and the
\* transcript holds the lines of both.
C28_Witness ==
  /\ ss.failures = <<1>> /\ ss.received = 2 /\ ss.inFlight = 0
  /\ ss.sentimentCount = 1
  /\ ss.transcript = <<[who |-> "Caller", text |-> "u1"], [who |-> "Caller", text |-> "u1"]>>

\* C29: the detected language of the summary is the code of the last event
\* that carried one, and "en" when no event carried one.
C29_LastHintWins ==
  /\ ss.detectedLanguage = (IF ss.lastHint = Undefined THEN "en" ELSE ss.lastHint)
  /\ ss.closed =>
       ss.summaries[1].detectedLanguage = (IF ss.lastHint = Undefined THEN "en" ELSE ss.lastHint)

\* C29 witness: a first hint "es", utterances, then a last hint "de"; the
\* summary says "de".
C29_Witness ==
  /\ ss.closed /\ ss.firstHint = "es" /\ ss.lastHint = "de"
  /\ Len(ss.arrived) >= 3
  /\ ss.summaries[1].detectedLanguage = "de"

\* The cache entry of the text holds no code but one the provider returned for it.
CacheHoldsReturnedCode ==
  cache[ConcText] # NoEntry => cache[ConcText].code \in cv.returned

\* No request makes more than one detection call or more than one cache write.
AtMostRedundantCalls ==
  \A i \in Invocations :
    /\ cv.inv[i].calls.detect <= 1 /\ cv.inv[i].calls.cacheSet <= 1
    /\ cv.inv[i].calls.detect = 0 => cv.inv[i].calls.cacheSet = 0

\* C30: with several requests at step 4 on the same text and no hint, each
\* one that is past step 4 has resolved to a code the detection provider
\* returned for that text or to the default "en"; the cache entry of the text
\* holds only a code the provider returned; no request detects more than once.
C30_ConcurrentResolution ==
  /\ \A i \in Invocations :
       cv.inv[i].pc = "translateInput" =>
         cv.inv[i].detectedLanguage \in cv.returned \cup {"en"}
  /\ CacheHoldsReturnedCode
  /\ AtMostRedundantCalls

\* C31: a request without a caller phone number makes no customer lookup, no
\* cache read or write, no detection, translation or scheduling call and no
\* analytics write, and leaves the cache as it was; its only call is the
\* synthesis of the English message, answered with status 400.
C31_RejectedBeforeAnyStage ==
  /\ []( (rq.pc # "idle" /\ ~rq.phoneNumber) =>
           /\ rq.calls.lookup = 0 /\ rq.calls.cacheGet = 0 /\ rq.calls.cacheSet = 0
           /\ rq.calls.detect = 0 /\ rq.calls.translate = 0 /\ rq.calls.sched = 0
           /\ rq.calls.add = 0 /\ call_analytics = << >> /\ pendingAdds = {}
           /\ rq.calls.tts <= 1
           /\ rq.customer = << >> /\ rq.bookedAppointmentId = Undefined
           /\ Done =>
                /\ Len(rq.sends) = 1 /\ ~rq.rejected
                /\ rq.sends[1].status = 400
                /\ rq.sends[1].spoken = Msg("missing_caller", "en")
                /\ rq.sends[1].voiceResponse.kind # "audio"
                     => rq.sends[1].voiceResponse.language = "en"
                /\ rq.calls.tts = (IF ULTRAVOX_TTS_URL THEN 1 ELSE 0) )
  /\ [][ (rq.pc \notin {"idle", "done"} /\ ~rq.phoneNumber) => cache' = cache ]_vars

\* C31 witness: with every collaborator configured, a request without a phone
\* number that carried a text and the hint "fr" has ended with status 400
\* after one synthesis call.
C31_Witness ==
  /\ translationClient /\ db /\ redis /\ EASY_APPOINTMENTS /\ ULTRAVOX_TTS_URL
  /\ Done /\ ~rq.phoneNumber /\ rq.hint = "fr" /\ rq.speechResult = "t1"
  /\ rq.calls.tts = 1 /\ rq.sends[1].status = 400

====
